---- MODULE Spec2Model ----
(***************************************************************************)
(* A model of package ir of llir/l: Function (ir/function.go) and the      *)
(* memory instructions (alloca, load, store, fence, cmpxchg, atomicrmw,    *)
(* getelementptr).                                                         *)
(*                                                                         *)
(* Strings that the code inspects or builds character by character (local  *)
(* names, strconv.Itoa) are sequences of one-character strings; rendered   *)
(* text (Function.Def) is a sequence of tokens, one per piece written to   *)
(* the strings.Builder; types are sequences of tokens in prefix notation.  *)
(***************************************************************************)
EXTENDS Naturals, Sequences, FiniteSets

VARIABLES f, inst, op, ret, pre, counter, numbered

vars == <<f, inst, op, ret, pre, counter, numbered>>

----------------------------------------------------------------------------
(* Bounds of the model.                                                    *)

\* Largest number of entities (parameters, basic blocks, instructions and
\* terminators) a function is built with.
MaxEntities == 3

\* Largest number of optional attributes of a function that are set at the
\* same time.
MaxAttrs == 2

\* Deepest nesting of pointer types among the types of operands.
MaxPtrDepth == 1

----------------------------------------------------------------------------
(* Types (package types, used through Equal, NewPointer, NewStruct).       *)

Void == <<"void">>
I1 == <<"i1">>
I32 == <<"i32">>

\* types.NewPointer(elem) and the ElemType of a pointer type.
NewPointer(elem) == <<"ptr">> \o elem
IsPointerType(t) == Len(t) > 0 /\ Head(t) = "ptr"
ElemTypeOf(t) == Tail(t)

\* types.NewStruct(a, b).
NewStruct(a, b) == <<"struct">> \o a \o b

\* A function signature (*types.FuncType) as a type.
FuncType(sig) ==
    <<"func">> \o sig.RetType \o (IF sig.Variadic THEN <<"...">> ELSE <<>>)

\* types.Type.Equal.
TypeEqual(t, u) == t = u

----------------------------------------------------------------------------
(* Names and identifiers.                                                  *)

Nil == <<>>

DigitChars == <<"0", "1", "2", "3", "4", "5", "6", "7", "8", "9">>

\* strconv.Itoa of a non-negative int: its decimal digits, most significant
\* first, no leading zero.
RECURSIVE Itoa(_)
Itoa(n) ==
    IF n < 10
    THEN <<DigitChars[n + 1]>>
    ELSE Itoa(n \div 10) \o <<DigitChars[(n % 10) + 1]>>

isUnnamed(name) == Len(name) = 0

isLocalID(name) ==
    /\ Len(name) > 0
    /\ \A i \in 1..Len(name) : \E d \in 1..Len(DigitChars) : name[i] = DigitChars[d]

\* enc.Global and enc.Local: the sigil, then the name.
Global(name) == <<"@">> \o name
Local(name) == <<"%">> \o name

\* The names the builder gives: none, local IDs and
\* a chosen name.
Names == {<<>>, <<"0">>, <<"1">>, <<"2">>, <<"x">>}

----------------------------------------------------------------------------
(* The function and what it owns.                                          *)

\* Instructions and terminators that implement value.Named (they have Name
\* and SetName), and those that do not.
NamedKinds == {"alloca", "load", "cmpxchg", "atomicrmw", "getelementptr", "call", "invoke"}
isNamed(n) == n.kind \in NamedKinds

NoTerm == [kind |-> "nil", name |-> <<>>, typ |-> Void]

NewParam(name) == [name |-> name]
NewBlock(name) == [name |-> name, Insts |-> <<>>, Term |-> NoTerm]

\* The instructions the builder appends: store (no result, not a named
\* value), call and load, each with the type its Type() returns.
InstChoices ==
    {[kind |-> "store", name |-> <<>>, typ |-> Void]}
    \cup [kind : {"call", "load"}, name : Names, typ : {Void, I32}]

\* The terminators: ret (not a named value) and invoke.
TermChoices ==
    {[kind |-> "ret", name |-> <<>>, typ |-> Void]}
    \cup [kind : {"invoke"}, name : Names, typ : {Void, I32}]

\* The function attributes that are optional, in the order of the Function
\* struct, and the zero value of each.
OptionalFields ==
    {"Linkage", "Preemption", "Visibility", "DLLStorageClass", "CallingConv",
     "ReturnAttrs", "UnnamedAddr", "FuncAttrs", "Section", "Comdat", "GC",
     "Prefix", "Prologue", "Personality"}

ZeroValue(field) ==
    CASE field \in {"ReturnAttrs", "FuncAttrs"} -> <<>>
      [] field \in {"Section", "GC"} -> ""
      [] field \in {"Comdat", "Prefix", "Prologue", "Personality"} -> "nil"
      [] OTHER -> "none"

NewSig(retType, variadic) == [RetType |-> retType, Variadic |-> variadic]

\* A function as first built: a signature and a name, the rest zero.
NewFunction ==
    [Sig |-> NewSig(I32, FALSE), GlobalName |-> <<"f">>,
     Params |-> <<>>, Blocks |-> <<>>, Typ |-> Nil,
     Linkage |-> "none", Preemption |-> "none", Visibility |-> "none",
     DLLStorageClass |-> "none", CallingConv |-> "none", ReturnAttrs |-> <<>>,
     UnnamedAddr |-> "none", FuncAttrs |-> <<>>, Section |-> "",
     Comdat |-> "nil", GC |-> "", Prefix |-> "nil", Prologue |-> "nil",
     Personality |-> "nil"]

\* An instruction of the memory instructions, as the constructors build it:
\* the operand fields hold the type of the operand.
NewAlloca(elemType) ==
    [kind |-> "alloca", LocalName |-> <<>>, Operand |-> elemType, Typ |-> Nil]
NewLoad(src) ==
    [kind |-> "load", LocalName |-> <<>>, Operand |-> src, Typ |-> Nil]
NewCmpXchg(new) ==
    [kind |-> "cmpxchg", LocalName |-> <<>>, Operand |-> new, Typ |-> Nil]
NewAtomicRMW(dst) ==
    [kind |-> "atomicrmw", LocalName |-> <<>>, Operand |-> dst, Typ |-> Nil]
NewGetElementPtr(elemType) ==
    [kind |-> "getelementptr", LocalName |-> <<>>, Operand |-> elemType, Typ |-> Nil]

RECURSIVE SumInsts(_, _)
SumInsts(blocks, i) ==
    IF i > Len(blocks)
    THEN 0
    ELSE 1 + Len(blocks[i].Insts)
           + (IF blocks[i].Term.kind = "nil" THEN 0 ELSE 1)
           + SumInsts(blocks, i + 1)

Entities(fn) == Len(fn.Params) + SumInsts(fn.Blocks, 1)

----------------------------------------------------------------------------
(* Function.AssignIDs.                                                     *)

\* isVoidValue with the *TermInvoke case left out.
isVoidValue_callOnly(n) ==
    IF n.kind \in {"call"}
    THEN TypeEqual(n.typ, Void)
    ELSE FALSE

\* isVoidValue: only a call instruction or an invoke terminator is asked for
\* its type.
isVoidValue(n) ==
    IF n.kind \in {"call", "invoke"}
    THEN TypeEqual(n.typ, Void)
    ELSE FALSE

\* errors.Errorf("invalid local ID in function %q, expected %s, got %s", ...).
Errorf(fname, want, got) ==
    <<[msg |-> "invalid local ID in function", func |-> Global(fname),
       expected |-> Local(want), got |-> Local(got)]>>

\* setName without the comparison of a local ID with the counter.
setName_acceptsAnyID(fname, n, id) ==
    LET got == n.name IN
    IF isUnnamed(got)
    THEN [n |-> [n EXCEPT !.name = Itoa(id)], id |-> id + 1, err |-> Nil]
    ELSE IF isLocalID(got)
         THEN [n |-> n, id |-> id + 1, err |-> Nil]
         ELSE [n |-> n, id |-> id, err |-> Nil]

\* setName with id++ also for an entity that is already named.
setName_countsNamed(fname, n, id) ==
    LET got == n.name IN
    IF isUnnamed(got)
    THEN [n |-> [n EXCEPT !.name = Itoa(id)], id |-> id + 1, err |-> Nil]
    ELSE IF isLocalID(got)
         THEN LET want == Itoa(id) IN
              IF want # got
              THEN [n |-> n, id |-> id, err |-> Errorf(fname, want, got)]
              ELSE [n |-> n, id |-> id + 1, err |-> Nil]
         ELSE [n |-> n, id |-> id + 1, err |-> Nil]

\* setName without id++ for a local ID that equals the counter.
setName_noIncOnMatch(fname, n, id) ==
    LET got == n.name IN
    IF isUnnamed(got)
    THEN [n |-> [n EXCEPT !.name = Itoa(id)], id |-> id + 1, err |-> Nil]
    ELSE IF isLocalID(got)
         THEN LET want == Itoa(id) IN
              IF want # got
              THEN [n |-> n, id |-> id, err |-> Errorf(fname, want, got)]
              ELSE [n |-> n, id |-> id, err |-> Nil]
         ELSE [n |-> n, id |-> id, err |-> Nil]

\* The setName closure on entity n with the counter at id: the entity and
\* the counter afterwards, and the error returned.  (The names map that the
\* closure also fills is never read and is left out.)
setName(fname, n, id) ==
    LET got == n.name IN
    IF isUnnamed(got)
    THEN [n |-> [n EXCEPT !.name = Itoa(id)], id |-> id + 1, err |-> Nil]
    ELSE IF isLocalID(got)
         THEN LET want == Itoa(id) IN
              IF want # got
              THEN [n |-> n, id |-> id, err |-> Errorf(fname, want, got)]
              ELSE [n |-> n, id |-> id + 1, err |-> Nil]
         ELSE [n |-> n, id |-> id, err |-> Nil]

\* for _, param := range f.Params, from index i on; st = [f, id, err].
RECURSIVE paramLoop(_, _)
paramLoop(st, i) ==
    IF i > Len(st.f.Params)
    THEN st
    ELSE LET r == setName(st.f.GlobalName, st.f.Params[i], st.id) IN
         IF r.err # Nil
         THEN [st EXCEPT !.err = r.err]
         ELSE paramLoop([f |-> [st.f EXCEPT !.Params[i] = r.n], id |-> r.id, err |-> Nil], i + 1)

\* for _, inst := range block.Insts of block b, from index i on.
RECURSIVE instLoop(_, _, _)
instLoop(st, b, i) ==
    IF i > Len(st.f.Blocks[b].Insts)
    THEN st
    ELSE LET n == st.f.Blocks[b].Insts[i] IN
         IF ~isNamed(n)
         THEN instLoop(st, b, i + 1)
         ELSE IF isVoidValue(n)
         THEN instLoop(st, b, i + 1)
         ELSE LET r == setName(st.f.GlobalName, n, st.id) IN
              IF r.err # Nil
              THEN [st EXCEPT !.err = r.err]
              ELSE instLoop([f |-> [st.f EXCEPT !.Blocks[b].Insts[i] = r.n],
                             id |-> r.id, err |-> Nil], b, i + 1)

\* block.Term of block b, after its instructions.
termStep(st, b) ==
    LET n == st.f.Blocks[b].Term IN
    IF ~isNamed(n)
    THEN st
    ELSE IF isVoidValue(n)
    THEN st
    ELSE LET r == setName(st.f.GlobalName, n, st.id) IN
         IF r.err # Nil
         THEN [st EXCEPT !.err = r.err]
         ELSE [f |-> [st.f EXCEPT !.Blocks[b].Term = r.n], id |-> r.id, err |-> Nil]

\* The block loop with the terminator handled before the instructions.
RECURSIVE blockLoop_termFirst(_, _)
blockLoop_termFirst(st, b) ==
    IF b > Len(st.f.Blocks)
    THEN st
    ELSE LET r == setName(st.f.GlobalName, st.f.Blocks[b], st.id) IN
         IF r.err # Nil
         THEN [st EXCEPT !.err = r.err]
         ELSE LET s1 == [f |-> [st.f EXCEPT !.Blocks[b] = r.n], id |-> r.id, err |-> Nil]
                  s2 == termStep(s1, b)
              IN  IF s2.err # Nil
                  THEN s2
                  ELSE LET s3 == instLoop(s2, b, 1) IN
                       IF s3.err # Nil
                       THEN s3
                       ELSE blockLoop_termFirst(s3, b + 1)

\* for _, block := range f.Blocks, from index b on.
RECURSIVE blockLoop(_, _)
blockLoop(st, b) ==
    IF b > Len(st.f.Blocks)
    THEN st
    ELSE LET r == setName(st.f.GlobalName, st.f.Blocks[b], st.id) IN
         IF r.err # Nil
         THEN [st EXCEPT !.err = r.err]
         ELSE LET s1 == [f |-> [st.f EXCEPT !.Blocks[b] = r.n], id |-> r.id, err |-> Nil]
                  s2 == instLoop(s1, b, 1)
              IN  IF s2.err # Nil
                  THEN s2
                  ELSE LET s3 == termStep(s2, b) IN
                       IF s3.err # Nil
                       THEN s3
                       ELSE blockLoop(s3, b + 1)

\* AssignIDs that hands back the function as it was when it fails.
AssignIDs_rollback(fn) ==
    IF Len(fn.Blocks) = 0
    THEN [f |-> fn, id |-> 0, err |-> Nil]
    ELSE LET s1 == paramLoop([f |-> fn, id |-> 0, err |-> Nil], 1)
             s2 == IF s1.err # Nil THEN s1 ELSE blockLoop(s1, 1)
         IN  IF s2.err # Nil THEN [s2 EXCEPT !.f = fn] ELSE s2

\* AssignIDs without the early return for a function with no block.
AssignIDs_noDeclCheck(fn) ==
    LET s1 == paramLoop([f |-> fn, id |-> 0, err |-> Nil], 1) IN
    IF s1.err # Nil
    THEN s1
    ELSE blockLoop(s1, 1)

\* Function.AssignIDs on fn: the function afterwards, the last value of the
\* counter and the error returned.
AssignIDs(fn) ==
    IF Len(fn.Blocks) = 0
    THEN [f |-> fn, id |-> 0, err |-> Nil]
    ELSE LET s1 == paramLoop([f |-> fn, id |-> 0, err |-> Nil], 1) IN
         IF s1.err # Nil
         THEN s1
         ELSE blockLoop(s1, 1)

----------------------------------------------------------------------------
(* Function.Def: the text as the sequence of pieces written to the         *)
(* builder.  An enum value, an attribute and a constant are written by     *)
(* their String method, which is the token that stands for them here.      *)

\* enc.Quote: the string between double quotes.
Quote(str) == <<"\"", str, "\"">>

\* Param.Def and BasicBlock.Def, the renderers of the parts.
ParamDef(param) ==
    <<"i32">> \o (IF param.name = <<>> THEN <<>> ELSE <<" ">> \o Local(param.name))
BlockDef(block) == block.name \o <<":">>

\* for _, attr := range attrs { fmt.Fprintf(buf, " %v", attr) }.
RECURSIVE attrsString(_)
attrsString(attrs) ==
    IF attrs = <<>>
    THEN <<>>
    ELSE <<" ", Head(attrs)>> \o attrsString(Tail(attrs))

\* for i, param := range hdr.Params, from index i on.
RECURSIVE paramsString(_, _)
paramsString(params, i) ==
    IF i > Len(params)
    THEN <<>>
    ELSE (IF i # 1 THEN <<", ">> ELSE <<>>)
         \o ParamDef(params[i])
         \o paramsString(params, i + 1)

\* headerString with the section clause written after the gc clause.
headerString_gcFirst(hdr) ==
    (IF hdr.Preemption # "none" THEN <<" ", hdr.Preemption>> ELSE <<>>)
    \o (IF hdr.Visibility # "none" THEN <<" ", hdr.Visibility>> ELSE <<>>)
    \o (IF hdr.DLLStorageClass # "none" THEN <<" ", hdr.DLLStorageClass>> ELSE <<>>)
    \o (IF hdr.CallingConv # "none" THEN <<" ", hdr.CallingConv>> ELSE <<>>)
    \o attrsString(hdr.ReturnAttrs)
    \o <<" ">> \o hdr.Sig.RetType
    \o <<" ">> \o Global(hdr.GlobalName) \o <<"(">>
    \o paramsString(hdr.Params, 1)
    \o (IF hdr.Sig.Variadic
        THEN (IF Len(hdr.Params) > 0 THEN <<", ">> ELSE <<>>) \o <<"...">>
        ELSE <<>>)
    \o <<")">>
    \o (IF hdr.UnnamedAddr # "none" THEN <<" ", hdr.UnnamedAddr>> ELSE <<>>)
    \o attrsString(hdr.FuncAttrs)
    \o (IF hdr.Comdat # "nil" THEN <<" ", hdr.Comdat>> ELSE <<>>)
    \o (IF Len(hdr.GC) > 0 THEN <<" gc ">> \o Quote(hdr.GC) ELSE <<>>)
    \o (IF Len(hdr.Section) > 0 THEN <<" section ">> \o Quote(hdr.Section) ELSE <<>>)
    \o (IF hdr.Prefix # "nil" THEN <<" prefix ", hdr.Prefix>> ELSE <<>>)
    \o (IF hdr.Prologue # "nil" THEN <<" prologue ", hdr.Prologue>> ELSE <<>>)
    \o (IF hdr.Personality # "nil" THEN <<" personality ", hdr.Personality>> ELSE <<>>)

\* headerString.
headerString(hdr) ==
    (IF hdr.Preemption # "none" THEN <<" ", hdr.Preemption>> ELSE <<>>)
    \o (IF hdr.Visibility # "none" THEN <<" ", hdr.Visibility>> ELSE <<>>)
    \o (IF hdr.DLLStorageClass # "none" THEN <<" ", hdr.DLLStorageClass>> ELSE <<>>)
    \o (IF hdr.CallingConv # "none" THEN <<" ", hdr.CallingConv>> ELSE <<>>)
    \o attrsString(hdr.ReturnAttrs)
    \o <<" ">> \o hdr.Sig.RetType
    \o <<" ">> \o Global(hdr.GlobalName) \o <<"(">>
    \o paramsString(hdr.Params, 1)
    \o (IF hdr.Sig.Variadic
        THEN (IF Len(hdr.Params) > 0 THEN <<", ">> ELSE <<>>) \o <<"...">>
        ELSE <<>>)
    \o <<")">>
    \o (IF hdr.UnnamedAddr # "none" THEN <<" ", hdr.UnnamedAddr>> ELSE <<>>)
    \o attrsString(hdr.FuncAttrs)
    \o (IF Len(hdr.Section) > 0 THEN <<" section ">> \o Quote(hdr.Section) ELSE <<>>)
    \o (IF hdr.Comdat # "nil" THEN <<" ", hdr.Comdat>> ELSE <<>>)
    \o (IF Len(hdr.GC) > 0 THEN <<" gc ">> \o Quote(hdr.GC) ELSE <<>>)
    \o (IF hdr.Prefix # "nil" THEN <<" prefix ", hdr.Prefix>> ELSE <<>>)
    \o (IF hdr.Prologue # "nil" THEN <<" prologue ", hdr.Prologue>> ELSE <<>>)
    \o (IF hdr.Personality # "nil" THEN <<" personality ", hdr.Personality>> ELSE <<>>)

\* for _, block := range body.Blocks { fmt.Fprintf(buf, "%v\n", block.Def()) }.
RECURSIVE blocksString(_)
blocksString(blocks) ==
    IF blocks = <<>>
    THEN <<>>
    ELSE BlockDef(Head(blocks)) \o <<"\n">> \o blocksString(Tail(blocks))

\* bodyString.
bodyString(body) == <<"{\n">> \o blocksString(body.Blocks) \o <<"}">>

\* Def that takes a function with one block for a declaration still.
Def_offByOne(fn) ==
    LET linkage == IF fn.Linkage # "none" THEN <<" ", fn.Linkage>> ELSE <<>> IN
    IF Len(fn.Blocks) <= 1
    THEN <<"declare">> \o linkage \o headerString(fn)
    ELSE <<"define">> \o linkage \o headerString(fn) \o <<" ">> \o bodyString(fn)

\* Function.Def.
Def(fn) ==
    LET linkage == IF fn.Linkage # "none" THEN <<" ", fn.Linkage>> ELSE <<>> IN
    IF Len(fn.Blocks) = 0
    THEN <<"declare">> \o linkage \o headerString(fn)
    ELSE <<"define">> \o linkage \o headerString(fn) \o <<" ">> \o bodyString(fn)

----------------------------------------------------------------------------
(* Type, String, Ident, Name and SetName of the memory instructions and of *)
(* Function.  A call yields the object afterwards and the value returned,  *)
(* Panic when the call panics.                                             *)

Panic == <<"panic">>

\* InstAlloca.Type.
InstAlloca_Type(i) ==
    IF i.Typ = Nil
    THEN [inst |-> [i EXCEPT !.Typ = NewPointer(i.Operand)], ret |-> NewPointer(i.Operand)]
    ELSE [inst |-> i, ret |-> i.Typ]

\* InstLoad.Type without the test of the cached type.
InstLoad_Type_noCache(i) ==
    IF ~IsPointerType(i.Operand)
    THEN [inst |-> i, ret |-> Panic]
    ELSE [inst |-> [i EXCEPT !.Typ = ElemTypeOf(i.Operand)], ret |-> ElemTypeOf(i.Operand)]

\* InstLoad.Type.
InstLoad_Type(i) ==
    IF i.Typ = Nil
    THEN IF ~IsPointerType(i.Operand)
         THEN [inst |-> i, ret |-> Panic]
         ELSE [inst |-> [i EXCEPT !.Typ = ElemTypeOf(i.Operand)], ret |-> ElemTypeOf(i.Operand)]
    ELSE [inst |-> i, ret |-> i.Typ]

\* InstCmpXchg.Type.
InstCmpXchg_Type(i) ==
    IF i.Typ = Nil
    THEN [inst |-> [i EXCEPT !.Typ = NewStruct(i.Operand, I1)], ret |-> NewStruct(i.Operand, I1)]
    ELSE [inst |-> i, ret |-> i.Typ]

\* InstAtomicRMW.Type without the panic: the type of the destination is taken
\* for the result when it is no pointer type.
InstAtomicRMW_Type_noPanic(i) ==
    IF i.Typ = Nil
    THEN IF ~IsPointerType(i.Operand)
         THEN [inst |-> [i EXCEPT !.Typ = i.Operand], ret |-> i.Operand]
         ELSE [inst |-> [i EXCEPT !.Typ = ElemTypeOf(i.Operand)], ret |-> ElemTypeOf(i.Operand)]
    ELSE [inst |-> i, ret |-> i.Typ]

\* InstAtomicRMW.Type.
InstAtomicRMW_Type(i) ==
    IF i.Typ = Nil
    THEN IF ~IsPointerType(i.Operand)
         THEN [inst |-> i, ret |-> Panic]
         ELSE [inst |-> [i EXCEPT !.Typ = ElemTypeOf(i.Operand)], ret |-> ElemTypeOf(i.Operand)]
    ELSE [inst |-> i, ret |-> i.Typ]

\* InstGetElementPtr.Type.
InstGetElementPtr_Type(i) ==
    IF i.Typ = Nil
    THEN [inst |-> [i EXCEPT !.Typ = NewPointer(i.Operand)], ret |-> NewPointer(i.Operand)]
    ELSE [inst |-> i, ret |-> i.Typ]

\* inst.Type() by the variant of inst.
Inst_Type(i) ==
    CASE i.kind = "alloca" -> InstAlloca_Type(i)
      [] i.kind = "load" -> InstLoad_Type(i)
      [] i.kind = "cmpxchg" -> InstCmpXchg_Type(i)
      [] i.kind = "atomicrmw" -> InstAtomicRMW_Type(i)
      [] i.kind = "getelementptr" -> InstGetElementPtr_Type(i)

\* inst.Ident(), inst.Name(), inst.SetName(name).
Inst_Ident(i) == Local(i.LocalName)
Inst_Name(i) == i.LocalName
Inst_SetName(i, name) == [i EXCEPT !.LocalName = name]

\* inst.String(): fmt.Sprintf("%v %v", inst.Type(), inst.Ident()).
Inst_String(i) ==
    LET r == Inst_Type(i) IN
    IF r.ret = Panic
    THEN r
    ELSE [inst |-> r.inst, ret |-> r.ret \o <<" ">> \o Inst_Ident(r.inst)]

\* Function.Type.
Function_Type(fn) ==
    IF fn.Typ = Nil
    THEN [f |-> [fn EXCEPT !.Typ = NewPointer(FuncType(fn.Sig))],
          ret |-> NewPointer(FuncType(fn.Sig))]
    ELSE [f |-> fn, ret |-> fn.Typ]

\* Function.Ident, Function.Name, Function.SetName.
Function_Ident(fn) == Global(fn.GlobalName)
Function_Name(fn) == fn.GlobalName
Function_SetName(fn, name) == [fn EXCEPT !.GlobalName = name]

\* Function.String: fmt.Sprintf("%v %v", f.Type(), f.Ident()).
Function_String(fn) ==
    LET r == Function_Type(fn) IN
    [f |-> r.f, ret |-> r.ret \o <<" ">> \o Function_Ident(r.f)]

----------------------------------------------------------------------------
(* The operations.  op is the last operation and ret what it returned; pre  *)
(* is the function as the last AssignIDs call found it, counter the value   *)
(* its counter ended with; numbered says that the call before that one was *)
(* an AssignIDs call too, that it returned no error and that the function  *)
(* was not modified in between.                                            *)

Init ==
    /\ f = NewFunction
    /\ inst = NewAlloca(I32)
    /\ op = "NewFunction"
    /\ ret = Nil
    /\ pre = NewFunction
    /\ counter = 0
    /\ numbered = FALSE

Built(fn) ==
    /\ f' = fn
    /\ UNCHANGED inst
    /\ op' = "build"
    /\ ret' = Nil
    /\ pre' = fn
    /\ counter' = 0
    /\ numbered' = FALSE

\* f.Params = append(f.Params, param).
AppendParam ==
    /\ Entities(f) < MaxEntities
    /\ \E name \in Names :
         Built([f EXCEPT !.Params = Append(@, NewParam(name))])

\* f.Blocks = append(f.Blocks, block).
AppendBlock ==
    /\ Entities(f) < MaxEntities
    /\ \E name \in Names :
         Built([f EXCEPT !.Blocks = Append(@, NewBlock(name))])

\* block.Insts = append(block.Insts, inst) on the last block.
AppendInst ==
    /\ Entities(f) < MaxEntities
    /\ Len(f.Blocks) > 0
    /\ \E n \in InstChoices :
         Built([f EXCEPT !.Blocks[Len(f.Blocks)].Insts = Append(@, n)])

\* block.Term = term on the last block.
SetTerm ==
    /\ Entities(f) < MaxEntities
    /\ Len(f.Blocks) > 0
    /\ f.Blocks[Len(f.Blocks)].Term.kind = "nil"
    /\ \E term \in TermChoices :
         Built([f EXCEPT !.Blocks[Len(f.Blocks)].Term = term])

CallAssignIDs ==
    LET r == AssignIDs(f) IN
    /\ f' = r.f
    /\ UNCHANGED inst
    /\ op' = "AssignIDs"
    /\ ret' = r.err
    /\ pre' = f
    /\ counter' = r.id
    /\ numbered' = (op = "AssignIDs" /\ ret = Nil)

Next ==
    \/ AppendParam
    \/ AppendBlock
    \/ AppendInst
    \/ SetTerm
    \/ CallAssignIDs

Spec == Init /\ [][Next]_vars

----------------------------------------------------------------------------
(* Building a function attribute by attribute and rendering it.            *)

\* The values the builder assigns to an optional field.
Values(field) ==
    CASE field = "Linkage" -> {"none", "external"}
      [] field = "Preemption" -> {"none", "dso_local"}
      [] field = "Visibility" -> {"none", "hidden"}
      [] field = "DLLStorageClass" -> {"none", "dllimport"}
      [] field = "CallingConv" -> {"none", "fastcc"}
      [] field = "ReturnAttrs" -> {<<>>, <<"inreg">>}
      [] field = "UnnamedAddr" -> {"none", "unnamed_addr"}
      [] field = "FuncAttrs" -> {<<>>, <<"nounwind">>}
      [] field = "Section" -> {"", ".text"}
      [] field = "Comdat" -> {"nil", "comdat"}
      [] field = "GC" -> {"", "shadow"}
      [] field = "Prefix" -> {"nil", "i32 1"}
      [] field = "Prologue" -> {"nil", "i32 2"}
      [] field = "Personality" -> {"nil", "i32 3"}

NumSet(fn) == Cardinality({field \in OptionalFields : fn[field] # ZeroValue(field)})

InitDef ==
    /\ f \in {[NewFunction EXCEPT !.Sig = NewSig(I32, v)] : v \in BOOLEAN}
    /\ inst = NewAlloca(I32)
    /\ op = "NewFunction"
    /\ ret = Nil
    /\ pre = f
    /\ counter = 0
    /\ numbered = FALSE

\* f.<field> = v.
SetOptional ==
    \E field \in OptionalFields :
        \E v \in Values(field) :
            /\ v # f[field]
            /\ v = ZeroValue(field) \/ NumSet(f) < MaxAttrs
            /\ Built([f EXCEPT ![field] = v])

\* f.Params = append(f.Params, param), the parameter named x.
DefAppendParam ==
    /\ Len(f.Params) + Len(f.Blocks) < MaxEntities
    /\ Built([f EXCEPT !.Params = Append(@, NewParam(<<"x">>))])

\* f.Blocks = append(f.Blocks, block), the block named a or b.
DefAppendBlock ==
    /\ Len(f.Params) + Len(f.Blocks) < MaxEntities
    /\ \E name \in {<<"a">>, <<"b">>} :
         Built([f EXCEPT !.Blocks = Append(@, NewBlock(name))])

CallDef ==
    /\ op' = "Def"
    /\ ret' = Def(f)
    /\ UNCHANGED <<f, inst, pre, counter, numbered>>

NextDef ==
    \/ SetOptional
    \/ DefAppendParam
    \/ DefAppendBlock
    \/ CallDef

SpecDef == InitDef /\ [][NextDef]_vars

----------------------------------------------------------------------------
(* One instruction and one function, their accessors called in any order   *)
(* and their operands replaced.                                            *)

RECURSIVE TypesUpTo(_)
TypesUpTo(depth) ==
    IF depth = 0
    THEN {I1, I32}
    ELSE TypesUpTo(depth - 1) \cup {NewPointer(t) : t \in TypesUpTo(depth - 1)}

\* The types of the operands (ElemType, Src, New, Dst) and the signatures.
OperandTypes == TypesUpTo(MaxPtrDepth)
Sigs == {NewSig(I32, FALSE), NewSig(Void, TRUE)}

InitType ==
    /\ f \in {[NewFunction EXCEPT !.Sig = sig] : sig \in Sigs}
    /\ inst \in {NewAlloca(t) : t \in OperandTypes}
          \cup {NewLoad(t) : t \in OperandTypes}
          \cup {NewCmpXchg(t) : t \in OperandTypes}
          \cup {NewAtomicRMW(t) : t \in OperandTypes}
          \cup {NewGetElementPtr(t) : t \in OperandTypes}
    /\ op = "New"
    /\ ret = Nil
    /\ pre = NewFunction
    /\ counter = 0
    /\ numbered = FALSE

CallInstType ==
    /\ inst' = Inst_Type(inst).inst
    /\ ret' = Inst_Type(inst).ret
    /\ op' = "Inst.Type"
    /\ UNCHANGED <<f, pre, counter, numbered>>

CallInstString ==
    /\ inst' = Inst_String(inst).inst
    /\ ret' = Inst_String(inst).ret
    /\ op' = "Inst.String"
    /\ UNCHANGED <<f, pre, counter, numbered>>

CallInstIdent ==
    /\ ret' = Inst_Ident(inst)
    /\ op' = "Inst.Ident"
    /\ UNCHANGED <<f, inst, pre, counter, numbered>>

CallInstName ==
    /\ ret' = Inst_Name(inst)
    /\ op' = "Inst.Name"
    /\ UNCHANGED <<f, inst, pre, counter, numbered>>

CallInstSetName ==
    /\ \E name \in {<<>>, <<"x">>} : inst' = Inst_SetName(inst, name)
    /\ ret' = Nil
    /\ op' = "Inst.SetName"
    /\ UNCHANGED <<f, pre, counter, numbered>>

\* inst.ElemType = t, inst.Src = v, inst.New = v or inst.Dst = v.
ReplaceOperand ==
    /\ \E t \in OperandTypes : inst' = [inst EXCEPT !.Operand = t]
    /\ ret' = Nil
    /\ op' = "assign operand"
    /\ UNCHANGED <<f, pre, counter, numbered>>

CallFunctionType ==
    /\ f' = Function_Type(f).f
    /\ ret' = Function_Type(f).ret
    /\ op' = "Function.Type"
    /\ UNCHANGED <<inst, pre, counter, numbered>>

CallFunctionString ==
    /\ f' = Function_String(f).f
    /\ ret' = Function_String(f).ret
    /\ op' = "Function.String"
    /\ UNCHANGED <<inst, pre, counter, numbered>>

CallFunctionIdent ==
    /\ ret' = Function_Ident(f)
    /\ op' = "Function.Ident"
    /\ UNCHANGED <<f, inst, pre, counter, numbered>>

CallFunctionName ==
    /\ ret' = Function_Name(f)
    /\ op' = "Function.Name"
    /\ UNCHANGED <<f, inst, pre, counter, numbered>>

CallFunctionSetName ==
    /\ \E name \in {<<"f">>, <<"g">>} : f' = Function_SetName(f, name)
    /\ ret' = Nil
    /\ op' = "Function.SetName"
    /\ UNCHANGED <<inst, pre, counter, numbered>>

\* f.Sig = sig.
ReplaceSig ==
    /\ \E sig \in Sigs : f' = [f EXCEPT !.Sig = sig]
    /\ ret' = Nil
    /\ op' = "assign Sig"
    /\ UNCHANGED <<inst, pre, counter, numbered>>

NextType ==
    \/ CallInstType
    \/ CallInstString
    \/ CallInstIdent
    \/ CallInstName
    \/ CallInstSetName
    \/ ReplaceOperand
    \/ CallFunctionType
    \/ CallFunctionString
    \/ CallFunctionIdent
    \/ CallFunctionName
    \/ CallFunctionSetName
    \/ ReplaceSig

SpecType == InitType /\ [][NextType]_vars

----------------------------------------------------------------------------
(* The traversal the claims speak of, stated apart from AssignIDs: the     *)
(* entities of a function as a list of positions, <<"p", 0, i>> parameter  *)
(* i, <<"b", b, 0>> block b, <<"i", b, i>> instruction i of block b and    *)
(* <<"t", b, 0>> the terminator of block b.                                *)

RECURSIVE BlockPositions(_, _)
BlockPositions(fn, b) ==
    IF b > Len(fn.Blocks)
    THEN <<>>
    ELSE <<<<"b", b, 0>>>>
         \o [i \in 1..Len(fn.Blocks[b].Insts) |-> <<"i", b, i>>]
         \o <<<<"t", b, 0>>>>
         \o BlockPositions(fn, b + 1)

Positions(fn) ==
    [i \in 1..Len(fn.Params) |-> <<"p", 0, i>>] \o BlockPositions(fn, 1)

NameAt(fn, pos) ==
    CASE pos[1] = "p" -> fn.Params[pos[3]].name
      [] pos[1] = "b" -> fn.Blocks[pos[2]].name
      [] pos[1] = "i" -> fn.Blocks[pos[2]].Insts[pos[3]].name
      [] pos[1] = "t" -> fn.Blocks[pos[2]].Term.name

KindAt(fn, pos) ==
    CASE pos[1] = "p" -> "param"
      [] pos[1] = "b" -> "block"
      [] pos[1] = "i" -> fn.Blocks[pos[2]].Insts[pos[3]].kind
      [] pos[1] = "t" -> fn.Blocks[pos[2]].Term.kind

TypAt(fn, pos) ==
    CASE pos[1] = "i" -> fn.Blocks[pos[2]].Insts[pos[3]].typ
      [] pos[1] = "t" -> fn.Blocks[pos[2]].Term.typ
      [] OTHER -> <<"label">>

HasName(fn, pos) ==
    KindAt(fn, pos) \notin {"store", "fence", "ret", "nil"}

\* The entities that take part in the numbering: parameters, blocks and the
\* named instructions and terminators, but for a call or an invoke of type
\* void.
IsCounted(fn, pos) ==
    /\ HasName(fn, pos)
    /\ ~(KindAt(fn, pos) \in {"call", "invoke"} /\ TypAt(fn, pos) = Void)

Numeric(name) == name # <<>> /\ \A i \in 1..Len(name) : name[i] \in {"0", "1", "2", "3", "4", "5", "6", "7", "8", "9"}

\* The counted entities of fn in traversal order.
Order(fn) ==
    LET Test(pos) == IsCounted(fn, pos) IN SelectSeq(Positions(fn), Test)

\* The entities of fn that are not counted.
Skipped(fn) ==
    {Positions(fn)[k] : k \in {j \in 1..Len(Positions(fn)) : ~IsCounted(fn, Positions(fn)[j])}}

\* The decimal numeral of n < 100, written out.
Numeral(n) ==
    IF n < 10
    THEN <<DigitChars[n + 1]>>
    ELSE <<DigitChars[(n \div 10) + 1], DigitChars[(n % 10) + 1]>>

\* How many of the first k - 1 counted entities of fn take a number: those
\* with no name or with a numeric one.
TakenBefore(fn, k) ==
    Cardinality({j \in 1..(k - 1) :
        LET nm == NameAt(fn, Order(fn)[j]) IN nm = <<>> \/ Numeric(nm)})

\* The counted entities of fn whose numeric name is not the number they
\* would take.
Mismatches(fn) ==
    {k \in 1..Len(Order(fn)) :
        LET nm == NameAt(fn, Order(fn)[k]) IN
        Numeric(nm) /\ nm # Numeral(TakenBefore(fn, k))}

\* The first of them (Len(Order(fn)) + 1 when there is none).
FirstMismatch(fn) ==
    IF Mismatches(fn) = {}
    THEN Len(Order(fn)) + 1
    ELSE CHOOSE k \in Mismatches(fn) : \A j \in Mismatches(fn) : k <= j

\* fn with every name blanked: what AssignIDs must leave alone.
RECURSIVE BlankInsts(_)
BlankInsts(insts) ==
    IF insts = <<>>
    THEN <<>>
    ELSE <<[Head(insts) EXCEPT !.name = <<>>]>> \o BlankInsts(Tail(insts))

RECURSIVE BlankBlocks(_)
BlankBlocks(blocks) ==
    IF blocks = <<>>
    THEN <<>>
    ELSE <<[name |-> <<>>, Insts |-> BlankInsts(Head(blocks).Insts),
            Term |-> [Head(blocks).Term EXCEPT !.name = <<>>]]>>
         \o BlankBlocks(Tail(blocks))

Shape(fn) ==
    [fn EXCEPT !.Params = [i \in 1..Len(fn.Params) |-> [fn.Params[i] EXCEPT !.name = <<>>]],
               !.Blocks = BlankBlocks(fn.Blocks)]

Called == op = "AssignIDs"

----------------------------------------------------------------------------
(* Claims.                                                                 *)

\* C1: on a function with at least one block in which every counted entity
\* has no name or a non-numeric one, AssignIDs returns no error, gives the
\* k-th unnamed counted entity of the traversal (parameters, then per block
\* the block, its instructions, its terminator) the name k - 1, and leaves
\* every other name, and everything but names, as it was.
C1_SequentialNumbering ==
    (/\ Called
     /\ Len(pre.Blocks) > 0
     /\ \A k \in 1..Len(Order(pre)) : ~Numeric(NameAt(pre, Order(pre)[k])))
    => /\ ret = Nil
       /\ Shape(f) = Shape(pre)
       /\ \A k \in 1..Len(Order(pre)) :
            LET pos == Order(pre)[k] IN
            IF NameAt(pre, pos) = <<>>
            THEN NameAt(f, pos) = Numeral(TakenBefore(pre, k))
            ELSE NameAt(f, pos) = NameAt(pre, pos)
       /\ \A pos \in Skipped(pre) : NameAt(f, pos) = NameAt(pre, pos)

\* A call on an unnamed block with an instruction named x and an unnamed
\* instruction, which is given the name 1.
C1_Witness ==
    /\ Called
    /\ ret = Nil
    /\ Len(pre.Blocks) = 1 /\ pre.Blocks[1].name = <<>>
    /\ Len(pre.Blocks[1].Insts) = 2
    /\ pre.Blocks[1].Insts[1].name = <<"x">>
    /\ pre.Blocks[1].Insts[2].name = <<>>
    /\ f.Blocks[1].name = <<"0">>
    /\ f.Blocks[1].Insts[1].name = <<"x">>
    /\ f.Blocks[1].Insts[2].name = <<"1">>
    /\ \A k \in 1..Len(Order(pre)) : ~Numeric(NameAt(pre, Order(pre)[k]))

\* The error AssignIDs returns for the first mismatch of fn.
MismatchError(fn) ==
    LET m == FirstMismatch(fn) IN
    <<[msg |-> "invalid local ID in function",
       func |-> <<"@">> \o fn.GlobalName,
       expected |-> <<"%">> \o Numeral(TakenBefore(fn, m)),
       got |-> <<"%">> \o NameAt(fn, Order(fn)[m])]>>

\* C2: AssignIDs returns an error exactly when, on a function with a block,
\* some counted entity carries a numeric name other than the value the
\* counter has when it is visited; the error names the function, that value
\* as expected and the name as actual, for the first such entity.  A numeric
\* name equal to the counter is accepted and kept.
C2_ErrorIffMismatch ==
    Called =>
        IF Len(pre.Blocks) > 0 /\ Mismatches(pre) # {}
        THEN ret = MismatchError(pre)
        ELSE /\ ret = Nil
             /\ \A k \in 1..Len(Order(pre)) :
                    Numeric(NameAt(pre, Order(pre)[k]))
                    => NameAt(f, Order(pre)[k]) = NameAt(pre, Order(pre)[k])

\* A call that accepted the parameter named 0, gave the block the name 1 and
\* failed on an instruction named 1 where 2 was expected.
C2_Witness ==
    /\ Called
    /\ Len(pre.Params) = 1 /\ pre.Params[1].name = <<"0">>
    /\ Len(pre.Blocks) = 1 /\ pre.Blocks[1].name = <<>>
    /\ Len(ret) = 1
    /\ ret[1].func = <<"@", "f">>
    /\ ret[1].expected = <<"%", "2">>
    /\ ret[1].got = <<"%", "1">>

\* C3: when AssignIDs returns an error, the counted entities before the
\* first mismatch have been handled (an unnamed one carries its number, a
\* named one its name), and the mismatching entity and every entity after
\* it carry the names they had before the call; nothing but names changed.
C3_NoRollback ==
    (Called /\ ret # Nil)
    => LET m == FirstMismatch(pre) IN
       /\ m <= Len(Order(pre))
       /\ Shape(f) = Shape(pre)
       /\ \A k \in 1..Len(Order(pre)) :
            LET pos == Order(pre)[k] IN
            IF k < m /\ NameAt(pre, pos) = <<>>
            THEN NameAt(f, pos) = Numeral(TakenBefore(pre, k))
            ELSE NameAt(f, pos) = NameAt(pre, pos)
       /\ \A pos \in Skipped(pre) : NameAt(f, pos) = NameAt(pre, pos)

\* A failed call that had numbered an unnamed entity before the mismatch
\* and left an unnamed entity after it unnamed.
C3_Witness ==
    /\ Called
    /\ ret # Nil
    /\ \E k \in 1..Len(Order(pre)) :
         /\ k < FirstMismatch(pre)
         /\ NameAt(pre, Order(pre)[k]) = <<>>
         /\ NameAt(f, Order(pre)[k]) # <<>>
    /\ \E k \in 1..Len(Order(pre)) :
         /\ k > FirstMismatch(pre)
         /\ NameAt(pre, Order(pre)[k]) = <<>>
         /\ NameAt(f, Order(pre)[k]) = <<>>

\* C4 as stated: the counter starts at 0 and is incremented by one for every
\* counted entity visited, named or not, so that a call that returns no
\* error ends with the counter at the number of counted entities.
C4_EveryEntityCounts ==
    (Called /\ Len(pre.Blocks) > 0 /\ ret = Nil) => counter = Len(Order(pre))

\* C4, amended: the counter starts at 0 and is incremented by one for every
\* counted entity visited that has no name or a (matching) numeric name; an
\* entity with a non-numeric name, a block included, takes no counter value.
\* The call ends with the counter at the number of such entities, up to the
\* first mismatch when it fails.
C4_CounterCountsUnnamedAndNumeric ==
    (Called /\ Len(pre.Blocks) > 0)
    => counter = TakenBefore(pre, FirstMismatch(pre))

\* A call without error on a function whose first block is named x: the
\* counter ends below the number of counted entities.
C4_Witness ==
    /\ Called
    /\ ret = Nil
    /\ Len(pre.Blocks) > 0
    /\ pre.Blocks[1].name = <<"x">>
    /\ counter > 0
    /\ counter < Len(Order(pre))

\* fn without the entities that are not counted.
StripInsts(fn, b) ==
    LET Test(n) == n.kind \notin {"store", "fence"} /\ ~(n.kind = "call" /\ n.typ = Void)
    IN  SelectSeq(fn.Blocks[b].Insts, Test)

StripTerm(t) ==
    IF t.kind \in {"ret", "nil"} \/ (t.kind = "invoke" /\ t.typ = Void) THEN NoTerm ELSE t

Strip(fn) ==
    [fn EXCEPT !.Blocks = [b \in 1..Len(fn.Blocks) |->
        [name |-> fn.Blocks[b].name, Insts |-> StripInsts(fn, b),
         Term |-> StripTerm(fn.Blocks[b].Term)]]]

\* C5 as stated: an instruction or terminator whose type is void, whatever
\* its variant, is never renamed.
C5_VoidNeverRenamed ==
    Called =>
        \A k \in 1..Len(Positions(pre)) :
            LET pos == Positions(pre)[k] IN
            (pos[1] \in {"i", "t"} /\ TypAt(pre, pos) = Void)
            => NameAt(f, pos) = NameAt(pre, pos)

\* C5, amended: AssignIDs skips every instruction and terminator that is no
\* named value (store, fence, ret) and every call and invoke whose type is
\* void: it keeps its name, and the error returned and the counter are those
\* of the function without it.  (A named value of another variant, such as a
\* load, is numbered whatever its type.)
C5_SkipsUnnamedKindsAndVoidCalls ==
    Called =>
        /\ \A pos \in Skipped(pre) : NameAt(f, pos) = NameAt(pre, pos)
        /\ ret = AssignIDs(Strip(pre)).err
        /\ counter = AssignIDs(Strip(pre)).id

\* A call on a block with a void call carrying a numeric name that is not
\* the counter's value, followed by an unnamed counted instruction: no
\* error, the call keeps its name and the instruction after it has the
\* number that follows the block's.
C5_Witness ==
    /\ Called
    /\ ret = Nil
    /\ Len(pre.Blocks) = 1
    /\ Len(pre.Blocks[1].Insts) = 2
    /\ pre.Blocks[1].Insts[1] = [kind |-> "call", name |-> <<"2">>, typ |-> Void]
    /\ pre.Blocks[1].Insts[2].name = <<>>
    /\ f.Blocks[1].name = <<"0">>
    /\ f.Blocks[1].Insts[1].name = <<"2">>
    /\ f.Blocks[1].Insts[2].name = <<"1">>

\* C6: AssignIDs on a function with no basic block returns no error and
\* changes nothing.
C6_DeclarationUntouched ==
    (Called /\ Len(pre.Blocks) = 0) => (ret = Nil /\ f = pre)

\* A call on a declaration with an unnamed parameter and a parameter whose
\* numeric name is not the counter's value.
C6_Witness ==
    /\ Called
    /\ Len(pre.Blocks) = 0
    /\ Len(pre.Params) >= 2
    /\ pre.Params[1].name = <<>>
    /\ pre.Params[2].name = <<"0">>
    /\ f.Params[1].name = <<>>

NoUnnamed(fn) == \A k \in 1..Len(Order(fn)) : NameAt(fn, Order(fn)[k]) # <<>>

\* C7: AssignIDs called again on a function that the call before numbered
\* without error, not modified since and with no unnamed counted entity,
\* returns no error and changes no name.
C7_RerunIdempotent ==
    (Called /\ numbered /\ NoUnnamed(pre)) => (ret = Nil /\ f = pre)

\* A second call on a function with a block whose counted entities carry
\* the numbers 0, 1 and 2.
C7_Witness ==
    /\ Called
    /\ numbered
    /\ Len(pre.Blocks) > 0
    /\ NoUnnamed(pre)
    /\ Len(Order(pre)) = 3
    /\ \A k \in 1..3 : NameAt(pre, Order(pre)[k]) = Numeral(k - 1)
    /\ f = pre

\* Where token tok is first written in out (0 when it is not).
IndexOf(out, tok) ==
    IF \E i \in 1..Len(out) : out[i] = tok
    THEN CHOOSE i \in 1..Len(out) : out[i] = tok /\ \A j \in 1..(i - 1) : out[j] # tok
    ELSE 0

\* The text of the body of fn: a space, "{\n", one block definition and a
\* line break per block in order, "}".
RECURSIVE ExpectedBlocks(_, _)
ExpectedBlocks(fn, b) ==
    IF b > Len(fn.Blocks)
    THEN <<>>
    ELSE fn.Blocks[b].name \o <<":", "\n">> \o ExpectedBlocks(fn, b + 1)

ExpectedBody(fn) == <<" ", "{\n">> \o ExpectedBlocks(fn, 1) \o <<"}">>

EndsWith(out, tail) ==
    /\ Len(out) >= Len(tail)
    /\ SubSeq(out, Len(out) - Len(tail) + 1, Len(out)) = tail

\* The two forms of the text of Def.
DeclareForm(out) ==
    /\ out[1] = "declare"
    /\ \A i \in 1..Len(out) : out[i] \notin {"define", "{\n", "}"}

DefineForm(fn, out) ==
    /\ out[1] = "define"
    /\ EndsWith(out, ExpectedBody(fn))
    /\ IndexOf(out, "{\n") = Len(out) - Len(ExpectedBody(fn)) + 2
    /\ \A i \in 1..Len(out) : out[i] # "declare"

\* C8: a Def call returns the declaration form (begins with declare, no
\* body) when the function has no block at the call and the definition form
\* (begins with define, ends with the body holding one block definition per
\* block in order) when it has one; and a function that has a block keeps
\* having one, so that every Def call after the first append returns the
\* definition form.
C8_DeclareOrDefine ==
    [][/\ op' = "Def" =>
            IF Len(f'.Blocks) = 0 THEN DeclareForm(ret') ELSE DefineForm(f', ret')
       /\ Len(f.Blocks) > 0 => Len(f'.Blocks) > 0]_vars

\* A Def call on a function with the blocks b and a, in this order, that
\* returned the definition form.
C8_Witness ==
    /\ op = "Def"
    /\ Len(f.Blocks) = 2
    /\ f.Blocks[1].name = <<"b">> /\ f.Blocks[2].name = <<"a">>
    /\ ret[1] = "define"
    /\ EndsWith(ret, <<" ", "{\n", "b", ":", "\n", "a", ":", "\n", "}">>)

\* The token that opens the clause of each optional field when it is set,
\* in the order of the grammar.
ClauseOrder ==
    <<"Linkage", "Preemption", "Visibility", "DLLStorageClass", "CallingConv",
      "ReturnAttrs", "UnnamedAddr", "FuncAttrs", "Section", "Comdat", "GC",
      "Prefix", "Prologue", "Personality">>

ClauseToken(field) ==
    CASE field = "Linkage" -> "external"
      [] field = "Preemption" -> "dso_local"
      [] field = "Visibility" -> "hidden"
      [] field = "DLLStorageClass" -> "dllimport"
      [] field = "CallingConv" -> "fastcc"
      [] field = "ReturnAttrs" -> "inreg"
      [] field = "UnnamedAddr" -> "unnamed_addr"
      [] field = "FuncAttrs" -> "nounwind"
      [] field = "Section" -> " section "
      [] field = "Comdat" -> "comdat"
      [] field = "GC" -> " gc "
      [] field = "Prefix" -> " prefix "
      [] field = "Prologue" -> " prologue "
      [] field = "Personality" -> " personality "

\* C9: in the text of Def the clause of an optional field is there exactly
\* when the field is set, the clauses stand in the order of the grammar, the
\* clauses before the return type stand before "(" and the others after ")";
\* so with Section and GC both set the section clause, with the quoted
\* section, stands before the gc clause, and both after ")".
C9_GrammarOrder ==
    op = "Def" =>
        /\ \A i \in 1..Len(ClauseOrder) :
             (f[ClauseOrder[i]] # ZeroValue(ClauseOrder[i]))
             <=> (IndexOf(ret, ClauseToken(ClauseOrder[i])) > 0)
        /\ \A i, j \in 1..Len(ClauseOrder) :
             (/\ i < j
              /\ IndexOf(ret, ClauseToken(ClauseOrder[i])) > 0
              /\ IndexOf(ret, ClauseToken(ClauseOrder[j])) > 0)
             => IndexOf(ret, ClauseToken(ClauseOrder[i])) < IndexOf(ret, ClauseToken(ClauseOrder[j]))
        /\ \A i \in 1..Len(ClauseOrder) :
             IndexOf(ret, ClauseToken(ClauseOrder[i])) > 0
             => IF i <= 6
                THEN IndexOf(ret, ClauseToken(ClauseOrder[i])) < IndexOf(ret, "(")
                ELSE IndexOf(ret, ClauseToken(ClauseOrder[i])) > IndexOf(ret, ")")
        /\ (f.Section # "" /\ f.GC # "")
           => /\ IndexOf(ret, ")") > 0
              /\ IndexOf(ret, ")") < IndexOf(ret, " section ")
              /\ ret[IndexOf(ret, " section ") + 2] = f.Section
              /\ IndexOf(ret, " section ") + 3 < IndexOf(ret, " gc ")
              /\ ret[IndexOf(ret, " gc ") + 2] = f.GC

\* A Def call on a function with Section and GC set: section ".text", then
\* gc "shadow", after ")".
C9_Witness ==
    /\ op = "Def"
    /\ f.Section = ".text"
    /\ f.GC = "shadow"
    /\ IndexOf(ret, ")") > 0
    /\ IndexOf(ret, " section ") > IndexOf(ret, ")")
    /\ IndexOf(ret, " gc ") > IndexOf(ret, " section ")

\* The type a first Type() call would compute from the operand inst has now
\* (Panic when it would panic), and from the signature of f.
FreshInstType ==
    CASE inst.kind \in {"alloca", "getelementptr"} -> <<"ptr">> \o inst.Operand
      [] inst.kind = "cmpxchg" -> <<"struct">> \o inst.Operand \o <<"i1">>
      [] inst.kind \in {"load", "atomicrmw"} ->
            IF inst.Operand[1] = "ptr" THEN Tail(inst.Operand) ELSE Panic

\* C10: for the function and for the instruction (alloca, load, cmpxchg,
\* atomicrmw, getelementptr), once Typ is set by a Type() call that returned,
\* no step of Type, String, Ident, Name, SetName or of the replacement of an
\* operand changes it, and every Type() call returns it; String() renders
\* it.
C10_CachedTypeStable ==
    [][/\ inst.Typ # Nil => inst'.Typ = inst.Typ
       /\ f.Typ # Nil => f'.Typ = f.Typ
       /\ (op' = "Inst.Type" /\ inst.Typ # Nil) => ret' = inst.Typ
       /\ (op' = "Inst.Type" /\ inst.Typ = Nil /\ ret' # Panic) => inst'.Typ = ret'
       /\ (op' = "Inst.String" /\ inst.Typ # Nil) => ret' = inst.Typ \o <<" ">> \o <<"%">> \o inst.LocalName
       /\ (op' = "Function.Type" /\ f.Typ # Nil) => ret' = f.Typ
       /\ (op' = "Function.Type" /\ f.Typ = Nil) => f'.Typ = ret'
      ]_vars

\* A Type() call on a load that returned the cached type after the source
\* was replaced by one of another type, and a function whose cached type is
\* not the pointer to its signature of now.
C10_Witness ==
    /\ op = "Inst.Type"
    /\ inst.kind = "load"
    /\ inst.Typ # Nil
    /\ ret = inst.Typ
    /\ FreshInstType # inst.Typ
    /\ f.Typ # Nil
    /\ f.Typ # <<"ptr", "func">> \o f.Sig.RetType \o (IF f.Sig.Variadic THEN <<"...">> ELSE <<>>)

\* C11: a Type() call on a load or an atomicrmw whose type is not cached yet
\* returns and caches the pointee type of the type of the source (of the
\* destination) when that is a pointer type, and panics, leaving Typ unset,
\* when it is not.
C11_PointeeTypeOrPanic ==
    [][(/\ op' = "Inst.Type"
        /\ inst.kind \in {"load", "atomicrmw"}
        /\ inst.Typ = Nil)
       => IF inst.Operand[1] = "ptr"
          THEN /\ ret' = Tail(inst.Operand)
               /\ inst'.Typ = Tail(inst.Operand)
               /\ <<"ptr">> \o ret' = inst.Operand
          ELSE /\ ret' = <<"panic">>
               /\ inst'.Typ = <<>>
      ]_vars

\* A Type() call on a load from a source of type pointer to i32 that
\* returned i32 and cached it.
C11_Witness ==
    /\ op = "Inst.Type"
    /\ inst.kind = "load"
    /\ inst.Operand = <<"ptr", "i32">>
    /\ ret = <<"i32">>
    /\ inst.Typ = <<"i32">>

====
